---- MODULE Spec2Model ----
(***************************************************************************)
(* Artify backend (src/Server.js): request handlers over the User, SellArt *)
(* and Cart collections, the image host, the payment gateway and the mail  *)
(* relay.  A handler is cut at its awaits: one action per store / upstream *)
(* call, each taking the handler from the call to the next call (or to the *)
(* response).  Requests run in slots 1..MaxReq and interleave at the calls.*)
(***************************************************************************)
EXTENDS Integers, Sequences, FiniteSets, TLC

VARIABLES carts, users, arts, hosted, orders, outbox, req

vars == <<carts, users, arts, hosted, orders, outbox, req>>

\* ---------------------------------------------------------------- bounds
MaxReq == 2      \* request slots: requests in flight at the same time
MaxItems == 3    \* line items in the Cart collection when requests are serial
MaxRaceItems == 2  \* line items in the Cart collection when requests interleave
MaxBatch == 2    \* pairs in one /deletefromcart body
MaxUsers == 2    \* documents in the User collection
MaxImages == 2   \* files in one /api/sell-art request
MaxHosted == 3   \* images the image host holds
MaxOrders == 2   \* orders the payment gateway holds
MaxMails == 2    \* messages the mail relay has taken

Req == 1..MaxReq

\* ---------------------------------------------------------------- values
\* Strings that the code compares or converts character by character are
\* sequences of character codes: "a1", "A1", "b2", "c3", "zz" and the empty
\* string.
Str_a1 == <<97, 49>>
Str_A1 == <<65, 49>>
Str_b2 == <<98, 50>>
Str_c3 == <<99, 51>>
Str_zz == <<122, 122>>
Str_empty == <<>>

ArtIdStrings == {Str_a1, Str_A1, Str_b2, Str_c3, Str_zz, Str_empty}

UserIds == {"u1", "u2"}

\* JavaScript's !x on a request field: true of a missing or empty value.
Falsy(x) == x = ""
FalsyChars(s) == Len(s) = 0

\* ---------------------------------------------------------------- casts
IsHexChar(c) == c \in 48..57 \/ c \in 65..70 \/ c \in 97..102

\* A string Mongoose casts to an ObjectId: all hex digits, of the ObjectId's
\* length (24 in the store, 2 in this model's strings).
IsObjectIdString(s) == Len(s) = 2 /\ \A i \in 1..Len(s) : IsHexChar(s[i])

ToLowerChar(c) == IF c \in 65..90 THEN c + 32 ELSE c

\* ObjectId(s).toString(): the id's hex digits in lower case.
ObjectIdToString(s) == [i \in 1..Len(s) |-> ToLowerChar(s[i])]

IsNumeric(p) == p = "100"

CastNumber(p) == IF p = "100" THEN 100 ELSE 0

\* The line item a cart document holds for a request's fields, after the
\* schema's casts (artId: ObjectId, price: Number).
CastItem(artId, title, price, image) ==
    [artId |-> ObjectIdToString(artId), title |-> title,
     price |-> CastNumber(price), image |-> image]

\* Whether the schema's validation accepts the line item.
ItemValid(artId, price) == IsObjectIdString(artId) /\ IsNumeric(price)

\* ---------------------------------------------------------------- requests
NoLoc == [none |-> TRUE]

Idle == [op |-> "none", pc |-> "idle", loc |-> NoLoc, resp |-> <<>>, err |-> "none"]

\* The handler has sent res.status(s).json(..) and ended; err is the error
\* its catch block logged, "none" on the paths outside the catch.
Done(op, loc, s, e) == [op |-> op, pc |-> "done", loc |-> loc, resp |-> <<s>>, err |-> e]

\* A handler between two awaits.
At(op, pc, loc) == [op |-> op, pc |-> pc, loc |-> loc, resp |-> <<>>, err |-> "none"]

CanStart(r) == req[r].pc \in {"idle", "done"}

InFlight == {r \in Req : ~CanStart(r)}

Init ==
    /\ carts = {}
    /\ users = {}
    /\ arts = {}
    /\ hosted = <<>>
    /\ orders = <<>>
    /\ outbox = <<>>
    /\ req = [r \in Req |-> Idle]

\* ================================================================ Cart
\* null as the result of a findOne: a document with the _id no document has.
NULL == [id |-> 0, userId |-> "", items |-> <<>>]

CartsOf(u) == {d \in carts : d.userId = u}

NumCarts(u) == Cardinality(CartsOf(u))

RECURSIVE SumItems(_)
SumItems(S) ==
    IF S = {} THEN 0
    ELSE LET d == CHOOSE x \in S : TRUE IN Len(d.items) + SumItems(S \ {d})

PendingAdds == Cardinality({r \in Req : req[r].pc = "add_save"})

\* The _id of a new document of user u: one that no stored document of u and
\* no loaded copy of one has.
FreshId(u) ==
    LET used == {d.id : d \in CartsOf(u)}
                  \cup {req[r].loc.cartId :
                          r \in {x \in Req : /\ req[x].pc \in {"add_save", "remove_save"}
                                             /\ req[x].loc.userId = u}}
    IN CHOOSE n \in 1..(Cardinality(used) + 1) : n \notin used

\* req.body of POST /cart, its artId among A: every field present, or one of
\* them missing.
PostCartBodies(A) ==
    {b \in [userId : UserIds \cup {""},
            artId : A,
            title : {"", "Sunset"},
            price : {"", "100", "abc"},
            image : {"", "http://x/1.jpg"}] :
        Cardinality({f \in {"userId", "title", "price", "image"} : Falsy(b[f])}
                      \cup (IF FalsyChars(b.artId) THEN {"artId"} ELSE {})) <= 1}

\* A path parameter :artId, among A, is a non-empty string.
ArtIdParams(A) == A \ {Str_zz, Str_empty}

\* The variant whose findOne never finds the user's cart.
FindOneCart_Null(u) == {NULL}

\* Cart.findOne({ userId }): null, or a cart document of that user.
FindOneCart(u) == IF CartsOf(u) = {} THEN {NULL} ELSE CartsOf(u)

\* POST /cart up to the store's part of save(): the field check,
\* Cart.findOne, the branch on its result and the casts and validation of
\* the new line item.
PostCart_Start(r, body) ==
    /\ CanStart(r)
    /\ UNCHANGED <<carts, users, arts, hosted, orders, outbox>>
    /\ LET out == NoLoc
       IN IF \/ Falsy(body.userId) \/ FalsyChars(body.artId) \/ Falsy(body.title)
             \/ Falsy(body.price) \/ Falsy(body.image)
          THEN req' = [req EXCEPT ![r] = Done("add", out, 400, "none")]
          ELSE \/ req' = [req EXCEPT ![r] = Done("add", out, 500, "StoreError")]
               \/ /\ ~ItemValid(body.artId, body.price)
                  /\ req' = [req EXCEPT ![r] = Done("add", out, 500, "ValidationError")]
               \/ /\ ItemValid(body.artId, body.price)
                  /\ \E existingCart \in FindOneCart(body.userId) :
                       req' = [req EXCEPT ![r] =
                           At("add", "add_save",
                              [userId |-> body.userId, cartId |-> existingCart.id,
                               item |-> CastItem(body.artId, body.title, body.price,
                                                 body.image)])]

\* new Cart({ userId, items: [item] }).save(): a new document.
InsertCart(userId, item) ==
    carts \cup {[id |-> FreshId(userId), userId |-> userId, items |-> <<item>>]}

\* The items.unshift variant of the write: the new line item goes first.
PushItem_Unshift(d, item) ==
    (carts \ {d}) \cup {[d EXCEPT !.items = <<item>> \o d.items]}

\* existingCart.items.push(item); existingCart.save(): a $push on the stored
\* document of that _id.
PushItem(d, item) == (carts \ {d}) \cup {[d EXCEPT !.items = Append(d.items, item)]}

\* A write of a document's items raises its __v: the copies of it that other
\* handlers have loaded are no longer current.
Outdate(r, d) ==
    [q \in Req |->
        IF /\ q # r /\ req[q].pc = "remove_save"
           /\ req[q].loc.userId = d.userId /\ req[q].loc.cartId = d.id
        THEN [req[q] EXCEPT !.loc.current = FALSE]
        ELSE req[q]]

\* POST /cart from the store's part of save() to the response. A save() of
\* a loaded document that the store no longer holds raises
\* DocumentNotFoundError.
PostCart_Save(r) ==
    /\ req[r].pc = "add_save"
    /\ UNCHANGED <<users, arts, hosted, orders, outbox>>
    /\ LET l == req[r].loc
           out == NoLoc
           stored == {d \in CartsOf(l.userId) : d.id = l.cartId}
       IN \/ /\ req' = [req EXCEPT ![r] = Done("add", out, 500, "StoreError")]
             /\ UNCHANGED carts
          \/ /\ l.cartId = NULL.id
             /\ carts' = InsertCart(l.userId, l.item)
             /\ req' = [req EXCEPT ![r] = Done("add", out, 201, "none")]
          \/ /\ l.cartId # NULL.id
             /\ IF stored = {}
                THEN /\ UNCHANGED carts
                     /\ req' = [req EXCEPT ![r] =
                           Done("add", out, 500, "DocumentNotFoundError")]
                ELSE \E d \in stored :
                       /\ carts' = PushItem(d, l.item)
                       /\ req' = [Outdate(r, d) EXCEPT ![r] = Done("add", out, 200, "none")]

\* GET /api/cart/:userId.
GetCart(r, userId) ==
    /\ CanStart(r)
    /\ UNCHANGED <<carts, users, arts, hosted, orders, outbox>>
    /\ LET out == [userId |-> userId]
       IN \/ req' = [req EXCEPT ![r] = Done("get", out, 500, "StoreError")]
          \/ \E userCart \in FindOneCart(userId) :
               req' = [req EXCEPT ![r] =
                   Done("get", out, IF userCart = NULL THEN 404 ELSE 200, "none")]

\* The variant that takes out the first matching item only.
FilterItems_FirstMatch(items, artId) ==
    LET hits == {i \in 1..Len(items) : items[i].artId = artId}
    IN IF hits = {} THEN items
       ELSE LET k == CHOOSE i \in hits : \A j \in hits : i <= j
            IN SubSeq(items, 1, k - 1) \o SubSeq(items, k + 1, Len(items))

\* cart.items.filter(item => item.artId.toString() !== artId.toString())
FilterItems(items, artId) == SelectSeq(items, LAMBDA it : it.artId # artId)

\* The variant without the deleteOne branch: an emptied cart is saved.
RemoveBranch_NoDeleteOne(before, after) ==
    IF Len(before) = Len(after) THEN "notfound" ELSE "save"

\* What the single-item remove does with the filtered sequence.
RemoveBranch(before, after) ==
    IF Len(before) = Len(after) THEN "notfound"
    ELSE IF Len(after) = 0 THEN "deleteOne"
    ELSE "save"

\* DELETE /api/cart/:userId/:artId up to the store's part of deleteOne or
\* of save().
DeleteCartItem_Start(r, userId, artId) ==
    /\ CanStart(r)
    /\ UNCHANGED <<carts, users, arts, hosted, orders, outbox>>
    /\ LET out == [userId |-> userId, artId |-> artId, msg |-> ""]
       IN \/ req' = [req EXCEPT ![r] = Done("remove", out, 500, "StoreError")]
          \/ \E cart \in FindOneCart(userId) :
               LET items == FilterItems(cart.items, artId)
                   branch == RemoveBranch(cart.items, items)
               IN IF cart = NULL \/ branch = "notfound"
                  THEN req' = [req EXCEPT ![r] = Done("remove", out, 404, "none")]
                  ELSE IF branch = "deleteOne"
                  THEN req' = [req EXCEPT ![r] =
                          At("remove", "remove_deleteOne",
                             [userId |-> userId, artId |-> artId])]
                  ELSE req' = [req EXCEPT ![r] =
                          At("remove", "remove_save",
                             [userId |-> userId, artId |-> artId, cartId |-> cart.id,
                              items |-> items, current |-> TRUE])]

\* The variant whose deleteOne matches no document.
DeleteOneCart_NoMatch(u) == {carts}

\* Cart.deleteOne({ userId }): one document of that user goes, if there is one.
DeleteOneCart(u) ==
    IF CartsOf(u) = {} THEN {carts} ELSE {carts \ {d} : d \in CartsOf(u)}

\* DELETE /api/cart/:userId/:artId from the store's part of deleteOne to the
\* response 'Cart deleted'.
DeleteCartItem_DeleteOne(r) ==
    /\ req[r].pc = "remove_deleteOne"
    /\ UNCHANGED <<users, arts, hosted, orders, outbox>>
    /\ LET out == [userId |-> req[r].loc.userId, artId |-> req[r].loc.artId, msg |-> ""]
       IN \/ /\ req' = [req EXCEPT ![r] = Done("remove", out, 500, "StoreError")]
             /\ UNCHANGED carts
          \/ /\ carts' \in DeleteOneCart(out.userId)
             /\ req' = [req EXCEPT ![r] = Done("remove", [out EXCEPT !.msg = "Cart deleted"], 200, "none")]

\* cart.save() after cart.items was assigned: a $set of the whole array on
\* the stored document of that _id.
SetItems(d, items) == (carts \ {d}) \cup {[d EXCEPT !.items = items]}

\* DELETE /api/cart/:userId/:artId from the store's part of save() to the
\* response. The update names the __v the document was loaded with: the
\* store applies it to a document that is still current, and save() raises
\* VersionError otherwise.
DeleteCartItem_Save(r) ==
    /\ req[r].pc = "remove_save"
    /\ UNCHANGED <<users, arts, hosted, orders, outbox>>
    /\ LET l == req[r].loc
           out == [userId |-> l.userId, artId |-> l.artId, msg |-> ""]
           stored == {d \in CartsOf(l.userId) : d.id = l.cartId /\ l.current}
       IN \/ /\ req' = [req EXCEPT ![r] = Done("remove", out, 500, "StoreError")]
             /\ UNCHANGED carts
          \/ IF stored = {}
             THEN /\ UNCHANGED carts
                  /\ req' = [req EXCEPT ![r] = Done("remove", out, 500, "VersionError")]
             ELSE \E d \in stored :
                    /\ carts' = SetItems(d, l.items)
                    /\ req' = [Outdate(r, d) EXCEPT ![r] = Done("remove", out, 200, "none")]

\* ---------------------------------------------------------------- batch
BatchPairs == [userId : UserIds, artId : {Str_a1, Str_b2}]

RECURSIVE SeqsUpTo(_, _)
SeqsUpTo(S, n) ==
    IF n = 0 THEN {<<>>}
    ELSE LET shorter == SeqsUpTo(S, n - 1)
         IN shorter \cup {Append(q, x) : q \in {y \in shorter : Len(y) = n - 1}, x \in S}

\* req.body of DELETE /deletefromcart: with a cartItems array, or without.
BatchBodies ==
    {[hasCartItems |-> FALSE, cartItems |-> <<>>]}
        \cup {[hasCartItems |-> TRUE, cartItems |-> q] : q \in SeqsUpTo(BatchPairs, MaxBatch)}

\* The documents Cart.findOneAndDelete({ artId, userId }) matches. artId is
\* no path of cartSchema: with strictQuery the filter loses it, and without
\* strictQuery the filter compares a top-level field that no cart has.
MatchArtIdUserId(strictQuery, artId, userId) ==
    IF strictQuery THEN CartsOf(userId)
    ELSE {d \in CartsOf(userId) : "artId" \in DOMAIN d /\ d["artId"] = artId}

\* The variant whose catch block answers 200 as well.
DeleteFromCart_End_Always200(hasCartItems, e) ==
    Done("batch", [hasCartItems |-> hasCartItems], 200, e)

\* The end of DELETE /deletefromcart: 200 after the loop, 500 from the catch
\* block with the error e it caught.
DeleteFromCart_End(hasCartItems, e) ==
    Done("batch", [hasCartItems |-> hasCartItems], IF e = "none" THEN 200 ELSE 500, e)

\* DELETE /deletefromcart up to the store's part of the first
\* findOneAndDelete: the for-of over req.body.cartItems starts.
DeleteFromCart_Start(r, body) ==
    /\ CanStart(r)
    /\ UNCHANGED <<carts, users, arts, hosted, orders, outbox>>
    /\ IF ~body.hasCartItems
       THEN req' = [req EXCEPT ![r] = DeleteFromCart_End(FALSE, "TypeError")]
       ELSE IF Len(body.cartItems) = 0
       THEN req' = [req EXCEPT ![r] = DeleteFromCart_End(TRUE, "none")]
       ELSE req' = [req EXCEPT ![r] = At("batch", "batch_delete", [rest |-> body.cartItems])]

\* One pass of the loop: the store's part of findOneAndDelete for the pair,
\* then the next pair or the response.
DeleteFromCart_Delete(r) ==
    /\ req[r].pc = "batch_delete"
    /\ UNCHANGED <<users, arts, hosted, orders, outbox>>
    /\ LET item == Head(req[r].loc.rest)
           rest == Tail(req[r].loc.rest)
           after == IF rest = <<>>
                    THEN DeleteFromCart_End(TRUE, "none")
                    ELSE At("batch", "batch_delete", [rest |-> rest])
       IN \/ /\ req' = [req EXCEPT ![r] = DeleteFromCart_End(TRUE, "StoreError")]
             /\ UNCHANGED carts
          \/ /\ \E strictQuery \in BOOLEAN :
                  LET matches == MatchArtIdUserId(strictQuery, item.artId, item.userId)
                  IN IF matches = {} THEN UNCHANGED carts
                     ELSE \E result \in matches : carts' = carts \ {result}
             /\ req' = [req EXCEPT ![r] = after]

\* The cart endpoints, serving requests in the slots R with artIds among A;
\* no add-item request starts once the collection and the adds in flight
\* hold n line items.
NextCartOn(R, n, A) ==
    \E r \in R :
        \/ \E body \in PostCartBodies(A) :
             /\ SumItems(carts) + PendingAdds < n
             /\ PostCart_Start(r, body)
        \/ \E userId \in UserIds : GetCart(r, userId)
        \/ \E userId \in UserIds, artId \in ArtIdParams(A) :
             DeleteCartItem_Start(r, userId, artId)
        \/ \E body \in BatchBodies : DeleteFromCart_Start(r, body)
        \/ PostCart_Save(r)
        \/ DeleteCartItem_DeleteOne(r)
        \/ DeleteCartItem_Save(r)
        \/ DeleteFromCart_Delete(r)

\* Requests arrive one after the other: one slot.
NextCartSerial == NextCartOn({1}, MaxItems, ArtIdStrings)

\* The requests of the slots 1..MaxReq interleave at their store calls.
NextCart == NextCartOn(Req, MaxRaceItems, ArtIdStrings \ {Str_c3})

SpecCartSerial == Init /\ [][NextCartSerial]_vars

SpecCart == Init /\ [][NextCart]_vars

\* ================================================================ User
\* null as the result of User.findOne.
NoUser == [id |-> 0, UserId |-> "", fullName |-> "", Email |-> "", imageurl |-> "",
           username |-> ""]

\* req.body of POST /api/user.
PostUserBodies ==
    [UserId : UserIds \cup {""}, fullName : {"", "Ann", "Bob"}, Email : {"", "a@x"},
     imageurl : {"", "http://x/a.jpg"}, username : {"", "ann"}]

\* The variant whose findOne never finds the user.
FindOneUser_Null(UserId) == {NoUser}

\* User.findOne({ UserId }): null, or a user document of that UserId.
FindOneUser(UserId) ==
    LET found == {d \in users : d.UserId = UserId}
    IN IF found = {} THEN {NoUser} ELSE found

PendingUsers == Cardinality({r \in Req : req[r].pc = "user_save"})

\* POST /api/user up to the store's part of save(): the field check,
\* User.findOne and the branch on its result.
PostUser_Start(r, body) ==
    /\ CanStart(r)
    /\ UNCHANGED <<carts, users, arts, hosted, orders, outbox>>
    /\ LET out == [UserId |-> body.UserId]
       IN IF \/ Falsy(body.UserId) \/ Falsy(body.fullName) \/ Falsy(body.Email)
             \/ Falsy(body.imageurl) \/ Falsy(body.username)
          THEN req' = [req EXCEPT ![r] = Done("register", out, 422, "none")]
          ELSE \/ req' = [req EXCEPT ![r] = Done("register", out, 500, "StoreError")]
               \/ \E user \in FindOneUser(body.UserId) :
                    IF user # NoUser
                    THEN req' = [req EXCEPT ![r] = Done("register", out, 409, "none")]
                    ELSE req' = [req EXCEPT ![r] = At("register", "user_save", body)]

\* new User(body).save(): a new document.
InsertUser(body) ==
    users \cup {[id |-> Cardinality(users) + 1, UserId |-> body.UserId,
                 fullName |-> body.fullName, Email |-> body.Email,
                 imageurl |-> body.imageurl, username |-> body.username]}

\* POST /api/user from the store's part of save() to the response.
PostUser_Save(r) ==
    /\ req[r].pc = "user_save"
    /\ UNCHANGED <<carts, arts, hosted, orders, outbox>>
    /\ LET out == [UserId |-> req[r].loc.UserId]
       IN \/ /\ req' = [req EXCEPT ![r] = Done("register", out, 500, "StoreError")]
             /\ UNCHANGED users
          \/ /\ users' = InsertUser(req[r].loc)
             /\ req' = [req EXCEPT ![r] = Done("register", out, 201, "none")]

\* The registration endpoint; no registration starts once the collection
\* and the saves in flight hold MaxUsers documents.
NextUser ==
    \E r \in Req :
        \/ \E body \in PostUserBodies :
             /\ Cardinality(users) + PendingUsers < MaxUsers
             /\ PostUser_Start(r, body)
        \/ PostUser_Save(r)

SpecUser == Init /\ [][NextUser]_vars

\* ================================================================ Listing
Blobs == {"p", "q"}

\* An upload's place in the results of Promise.all: pending, or
\* the secure_url the host gave it. The host's URLs are the places in hosted.
Pending == 0

\* req.body of POST /api/sell-art: every field present, or one of them
\* missing.
PostSellArtBodies ==
    {b \in [category : {"", "oil"}, title : {"", "Sunset"}, description : {"", "d"},
            price : {"", "100", "abc"}, userId : {"", "u1"}] :
        Cardinality({f \in DOMAIN b : Falsy(b[f])}) <= 1}

\* req.files as multer leaves it: the uploaded buffers, in the order sent.
SellArtFiles == SeqsUpTo(Blobs, MaxImages)

\* POST /api/sell-art up to the uploads: the field check, and one
\* upload_stream per file, all started.
PostSellArt_Start(r, body, images) ==
    /\ CanStart(r)
    /\ UNCHANGED <<carts, users, arts, hosted, orders, outbox>>
    /\ IF \/ Falsy(body.category) \/ Falsy(body.title) \/ Falsy(body.description)
          \/ Falsy(body.price) \/ Len(images) = 0 \/ Falsy(body.userId)
       THEN req' = [req EXCEPT ![r] = Done("sell", NoLoc, 422, "none")]
       ELSE req' = [req EXCEPT ![r] =
               At("sell", "sell_upload",
                  [body |-> body, images |-> images,
                   results |-> [i \in 1..Len(images) |-> Pending]])]

\* The variant that collects the URLs in the order the uploads settle.
PromiseAllValues_BySettlement(results) ==
    LET urls == {results[i] : i \in 1..Len(results)}
    IN [i \in 1..Len(results) |->
           CHOOSE x \in urls : Cardinality({y \in urls : y < x}) = i - 1]

\* The value Promise.all fulfils with: the results at their inputs' places.
PromiseAllValues(results) == results

Settled(results) == \A i \in 1..Len(results) : results[i] # Pending

\* The callback of upload i: the host has stored the buffer and resolve()
\* gets its secure_url, or reject() gets the host's error. Promise.all
\* rejects with the first rejection, which takes the handler to its catch
\* block; it fulfils with the last resolution, which takes the handler to
\* save().
SellArt_UploadCallback(r, i, ok) ==
    /\ req[r].pc = "sell_upload"
    /\ i \in 1..Len(req[r].loc.images)
    /\ req[r].loc.results[i] = Pending
    /\ UNCHANGED <<carts, users, arts, orders, outbox>>
    /\ IF ok
       THEN /\ hosted' = Append(hosted, req[r].loc.images[i])
            /\ LET results == [req[r].loc.results EXCEPT ![i] = Len(hosted')]
               IN IF Settled(results)
                  THEN req' = [req EXCEPT ![r] =
                          At("sell", "sell_save",
                             [body |-> req[r].loc.body, images |-> req[r].loc.images,
                              imageUrls |-> PromiseAllValues(results)])]
                  ELSE req' = [req EXCEPT ![r].loc.results = results]
       ELSE /\ UNCHANGED hosted
            /\ req' = [req EXCEPT ![r] = Done("sell", NoLoc, 500, "UploadError")]

\* new SellArt({...}).save(): a new document, price cast to a Number.
InsertArt(body, imageUrls) ==
    arts \cup {[id |-> Cardinality(arts) + 1, category |-> body.category,
                title |-> body.title, description |-> body.description,
                price |-> CastNumber(body.price), images |-> imageUrls,
                userId |-> body.userId]}

\* POST /api/sell-art from save() to the response.
PostSellArt_Save(r) ==
    /\ req[r].pc = "sell_save"
    /\ UNCHANGED <<carts, users, hosted, orders, outbox>>
    /\ IF ~IsNumeric(req[r].loc.body.price)
       THEN /\ req' = [req EXCEPT ![r] = Done("sell", NoLoc, 500, "ValidationError")]
            /\ UNCHANGED arts
       ELSE \/ /\ req' = [req EXCEPT ![r] = Done("sell", NoLoc, 500, "StoreError")]
               /\ UNCHANGED arts
            \/ /\ arts' = InsertArt(req[r].loc.body, req[r].loc.imageUrls)
               /\ req' = [req EXCEPT ![r] = Done("sell", NoLoc, 201, "none")]

\* The create-listing endpoint, one request at a time; no request starts
\* that could take the host beyond MaxHosted images.
NextListing ==
    \/ \E body \in PostSellArtBodies, images \in SellArtFiles :
         /\ Len(hosted) + Len(images) <= MaxHosted
         /\ PostSellArt_Start(1, body, images)
    \/ \E i \in 1..MaxImages, ok \in BOOLEAN : SellArt_UploadCallback(1, i, ok)
    \/ PostSellArt_Save(1)

SpecListing == Init /\ [][NextListing]_vars

\* ================================================================ Order, mail
\* req.body of POST /createorder.
CreateOrderBodies == [amount : {1, 5}, currency : {"INR", "USD"}, receipt : {"r1"}]

\* POST /createorder: razorpay.orders.create gives the order, or throws.
PostCreateOrder(r, body) ==
    /\ CanStart(r)
    /\ UNCHANGED <<carts, users, arts, hosted, outbox>>
    /\ \/ /\ orders' = Append(orders, [amount |-> body.amount * 100,
                                       currency |-> body.currency,
                                       receipt |-> body.receipt])
          /\ req' = [req EXCEPT ![r] = Done("order", NoLoc, 200, "none")]
       \/ /\ UNCHANGED orders
          /\ req' = [req EXCEPT ![r] = Done("order", NoLoc, 500, "GatewayError")]

\* req.body of POST /sendemail: with an email object, or without.
SendEmailBodies ==
    [hasEmail : BOOLEAN, referrerEmail : {"r@x"}, refereeEmail : {"a@x", "b@x"}]

\* The handler's promise rejected outside its try block. The handler sends
\* nothing; the framework leaves the request open (Express 4) or answers it
\* with its own 500 page (Express 5).
Uncaught(op, e, answered) ==
    [op |-> op, pc |-> "uncaught", loc |-> NoLoc,
     resp |-> IF answered THEN <<500>> ELSE <<>>, err |-> e]

\* POST /sendemail: the destructuring of req.body.email, outside the try
\* block, then sendEmail, which sends through the relay or throws.
PostSendEmail(r, body) ==
    /\ CanStart(r)
    /\ UNCHANGED <<carts, users, arts, hosted, orders>>
    /\ IF ~body.hasEmail
       THEN /\ \E answered \in BOOLEAN :
                 req' = [req EXCEPT ![r] = Uncaught("mail", "TypeError", answered)]
            /\ UNCHANGED outbox
       ELSE \/ /\ outbox' = Append(outbox, [to |-> body.refereeEmail])
               /\ req' = [req EXCEPT ![r] = Done("mail", NoLoc, 200, "none")]
            \/ /\ UNCHANGED outbox
               /\ req' = [req EXCEPT ![r] = Done("mail", NoLoc, 500, "MailError")]

NextNotify ==
    \E r \in Req :
        \/ \E body \in CreateOrderBodies : Len(orders) < MaxOrders /\ PostCreateOrder(r, body)
        \/ \E body \in SendEmailBodies : Len(outbox) < MaxMails /\ PostSendEmail(r, body)

SpecNotify == Init /\ [][NextNotify]_vars

\* ================================================================ claims
\* A step in which slot r's handler sends its response.
Responds(r) == req[r] # req'[r] /\ req'[r].pc = "done"

\* A step in which a request starts in slot r.
Starts(r, op) == CanStart(r) /\ req[r] # req'[r] /\ req'[r].op = op

StoreOk(r) == req'[r].err # "StoreError"

\* S without the items whose artId is a, the others in their order.
RECURSIVE Without(_, _)
Without(S, a) ==
    IF S = <<>> THEN <<>>
    ELSE IF Head(S).artId = a THEN Without(Tail(S), a)
    ELSE <<Head(S)>> \o Without(Tail(S), a)

HasArt(S, a) == \E i \in 1..Len(S) : S[i].artId = a

C2_RemoveLastThenList ==
    [][\A r \in Req, u \in UserIds :
         /\ (/\ Starts(r, "remove") /\ StoreOk(r) /\ req'[r].loc.userId = u
             /\ \E d \in carts : /\ CartsOf(u) = {d} /\ Len(d.items) = 1
                                 /\ req'[r].loc.artId = d.items[1].artId)
               => req'[r].pc = "remove_deleteOne"
         /\ (/\ req[r].pc = "remove_deleteOne" /\ req[r].loc.userId = u
             /\ Responds(r) /\ StoreOk(r) /\ NumCarts(u) <= 1)
               => /\ CartsOf(u)' = {}
                  /\ req'[r].resp = <<200>> /\ req'[r].loc.msg = "Cart deleted"
         /\ (/\ Starts(r, "get") /\ StoreOk(r) /\ req'[r].loc.userId = u
             /\ CartsOf(u) = {})
               => req'[r].resp = <<404>>
         /\ (CartsOf(u) = {} /\ CartsOf(u)' # {})
               => \E q \in Req : /\ req[q].pc = "add_save" /\ req[q].loc.userId = u
                                 /\ Responds(q)]_vars

\* A remove has answered 'Cart deleted' and its user is without a cart: the
\* state in which the list-items request is issued.
C2_Witness ==
    \E r \in Req, u \in UserIds :
        /\ req[r].op = "remove" /\ req[r].resp = <<200>> /\ req[r].loc.msg = "Cart deleted"
        /\ req[r].loc.userId = u
        /\ CartsOf(u) = {}

\* C4: the single-item remove on the user's cart d with items S (store calls
\* succeeding): 404 and the carts unchanged when no item of S has the artId
\* (compared as strings); otherwise the stored result is S without every
\* item of that artId, the others in their order: the document is deleted when
\* that is empty and holds exactly that sequence when it is not.
C4_RemoveFilters ==
    [][\A r \in Req :
         /\ (Starts(r, "remove") /\ StoreOk(r)) =>
              LET u == req'[r].loc.userId
                  a == req'[r].loc.artId
              IN /\ carts' = carts
                 /\ \A d \in CartsOf(u) :
                      (CartsOf(u) = {d}) =>
                         IF ~HasArt(d.items, a)
                         THEN req'[r].pc = "done" /\ req'[r].resp = <<404>>
                         ELSE IF Without(d.items, a) = <<>>
                         THEN req'[r].pc = "remove_deleteOne"
                         ELSE req'[r].pc = "remove_save"
         /\ (req[r].pc = "remove_deleteOne" /\ Responds(r) /\ StoreOk(r)) =>
              \A d \in CartsOf(req[r].loc.userId) :
                 (CartsOf(req[r].loc.userId) = {d}) =>
                    /\ Without(d.items, req[r].loc.artId) = <<>>
                    /\ carts' = carts \ {d}
         /\ (req[r].pc = "remove_save" /\ Responds(r) /\ StoreOk(r)) =>
              \A d \in CartsOf(req[r].loc.userId) :
                 (CartsOf(req[r].loc.userId) = {d}) =>
                    /\ Without(d.items, req[r].loc.artId) # <<>>
                    /\ req'[r].resp = <<200>>
                    /\ carts' = (carts \ {d})
                         \cup {[d EXCEPT !.items = Without(d.items, req[r].loc.artId)]}]_vars

\* A remove has taken an artId out of a cart and left two items of two other
\* artIds.
C4_Witness ==
    \E r \in Req, d \in carts :
        /\ req[r].op = "remove" /\ req[r].resp = <<200>> /\ req[r].loc.msg = ""
        /\ req[r].loc.userId = d.userId
        /\ Len(d.items) = 2 /\ d.items[1].artId # d.items[2].artId
        /\ ~HasArt(d.items, req[r].loc.artId)

AboutToCreate(u) ==
    {r \in Req : req[r].pc = "add_save" /\ req[r].loc.userId = u /\ req[r].loc.cartId = NULL.id}

C8_DuplicateOnlyByInterleavedAdds ==
    [][\A u \in UserIds :
         (/\ NumCarts(u) + Cardinality(AboutToCreate(u)) <= 1
          /\ NumCarts(u)' + Cardinality(AboutToCreate(u)') > 1)
            => \E r, q \in Req :
                 /\ r # q
                 /\ Starts(r, "add") /\ req'[r].pc = "add_save" /\ req'[r].loc.userId = u
                 /\ req[q].pc = "add_save" /\ req[q].loc.userId = u]_vars

\* Two cart documents of one user.
C8_Witness == \E u \in UserIds : NumCarts(u) = 2

\* C9: every cart document in the store holds at least one line item.
C9_NoEmptyCart == \A d \in carts : Len(d.items) >= 1

\* A remove has saved a cart it took an item out of, a batch remove has
\* answered, and a cart is in the store.
C9_Witness ==
    \E r, q \in Req :
        /\ req[r].op = "remove" /\ req[r].resp = <<200>> /\ req[r].loc.msg = ""
        /\ req[q].op = "batch" /\ req[q].resp = <<200>>
        /\ \E d \in carts : d.userId = req[r].loc.userId

\* C10 as stated: a pass of the batch removal for the pair {u, a} (its store
\* call succeeding) takes the items of artId a out of u's cart when the cart
\* also holds another item, keeps the other items, and leaves the carts of the
\* other users as they are.
C10_BatchRemovesNamedItems ==
    [][\A r \in Req :
         (req[r].pc = "batch_delete" /\ req[r] # req'[r] /\ StoreOk(r)) =>
            LET p == Head(req[r].loc.rest)
            IN \A d \in carts :
                 /\ d.userId # p.userId => d \in carts'
                 /\ (/\ d.userId = p.userId /\ HasArt(d.items, p.artId)
                     /\ Without(d.items, p.artId) # <<>>)
                       => [d EXCEPT !.items = Without(d.items, p.artId)] \in carts']_vars

\* C3: a registration with its five fields present whose findOne runs when a
\* user of that UserId is stored (the store call succeeding) responds 409 and
\* ends there, the collection as it was; and no step takes a user document
\* away or changes one.
C3_DuplicateUserConflict ==
    [][/\ \A r \in Req :
            (/\ Starts(r, "register") /\ StoreOk(r) /\ req'[r].resp # <<422>>
             /\ \E d \in users : d.UserId = req'[r].loc.UserId)
               => /\ req'[r].pc = "done" /\ req'[r].resp = <<409>>
                  /\ users' = users
       /\ users \subseteq users']_vars

\* A registration has answered 409 and the user of that UserId is stored.
C3_Witness ==
    \E r \in Req :
        /\ req[r].op = "register" /\ req[r].resp = <<409>>
        /\ Cardinality({d \in users : d.UserId = req[r].loc.UserId}) = 1

\* C6 as stated: no request ends with its handler's failure uncaught, and a
\* request that has ended has sent exactly one response.
C6_EveryRequestAnswered ==
    \A r \in Req :
        /\ req[r].pc # "uncaught"
        /\ req[r].pc = "done" => Len(req[r].resp) = 1

\* C7: a listing is stored only by the save() of a request whose uploads all
\* resolved, and it then holds one URL per file, the i-th URL being the one
\* the host gave the i-th file; a request one of whose uploads is rejected
\* responds 500 and stores nothing.
C7_ListingImagesInInputOrder ==
    [][/\ (arts' # arts) =>
            /\ req[1].pc = "sell_save" /\ req'[1].resp = <<201>>
            /\ \E d \in arts' \ arts :
                 /\ arts' = arts \cup {d}
                 /\ Len(d.images) = Len(req[1].loc.images)
                 /\ \A i \in 1..Len(d.images) :
                      /\ d.images[i] \in 1..Len(hosted)
                      /\ hosted[d.images[i]] = req[1].loc.images[i]
                 /\ \A i, j \in 1..Len(d.images) : i # j => d.images[i] # d.images[j]
       /\ (req[1].pc = "sell_upload" /\ req'[1].pc = "sell_save") =>
            \A i \in 1..Len(req[1].loc.images) :
               \/ req[1].loc.results[i] \in 1..Len(hosted)
               \/ req[1].loc.results[i] = Pending /\ Len(hosted') = Len(hosted) + 1
       /\ (req[1].pc = "sell_upload" /\ hosted' = hosted /\ req'[1] # req[1]) =>
            /\ req'[1].pc = "done" /\ req'[1].resp = <<500>>
            /\ arts' = arts]_vars

\* A listing of two images is stored whose second file the host took first.
C7_Witness ==
    /\ req[1].op = "sell" /\ req[1].resp = <<201>>
    /\ \E d \in arts :
         /\ Len(d.images) = 2 /\ d.images[1] > d.images[2]
         /\ hosted[d.images[1]] # hosted[d.images[2]]

====
